---- MODULE Spec2Model ----
(***************************************************************************)
(* A model of src/bot.py: Bot.minimax (depth-limited minimax with          *)
(* alpha-beta pruning over a board that is mutated by push/pop) and the    *)
(* material / king-safety parts of Bot.evaluate_board.                     *)
(*                                                                         *)
(* The rules engine (python-chess) is modelled by a finite game tree: a    *)
(* position is a node, a move is the node it leads to, the legal moves of  *)
(* a position are its children in enumeration order.  Scores are integers: *)
(* the evaluator's scores are multiples of 0.5 and are counted in halves.  *)
(***************************************************************************)
EXTENDS Integers, Sequences, FiniteSets, TLC

\* ---------------------------------------------------------------- bounds
\* Largest game tree (number of positions) the search is run on.
MaxNodes == 6
\* Largest depth a root call is made with (the smallest is -1).
MaxDepth == 2
\* Number of nested minimax frames the interpreter allows before the next
\* call raises RecursionError (CPython: 1000; always > the valid depths).
RecursionLimit == 3
\* Leaf evaluations the tree's positions are given.
Scores == {-1, 0, 1}

\* ------------------------------------------------------------- constants
\* float('inf'): larger than every evaluation.
Inf == 1000
\* best_move = None / the None of a base-case return (moves are nodes >= 2).
NoMove == 0
\* The position the board holds when the root call is made.
Root == 1

VARIABLES
  parent,     \* the game tree: parent[n] of node n, nodes in enumeration (pre)order
  over,       \* over[n]: board.is_game_over() at position n
  ev,         \* ev[n]: evaluate_board() at position n
  rootDepth,  \* the depth argument of the root call
  board,      \* self.board's move stack
  stack,      \* the minimax frames, innermost last
  ret,        \* <<>> or <<r>>: the value a minimax call has just returned
  exc,        \* an exception is propagating
  pruned,     \* some loop was left by break with moves still unexplored
  pc,         \* "idle", "running", "done", "raised"; "eval" for the evaluator
  position,   \* the evaluator's board: pieces and castling rights
  evaluated   \* what the evaluator computed, per Bot colour

searchVars == <<parent, over, ev, rootDepth, board, stack, ret, exc, pruned>>
evalVars == <<position, evaluated>>
vars == <<parent, over, ev, rootDepth, board, stack, ret, exc, pruned, pc,
          position, evaluated>>

Max(a, b) == IF a >= b THEN a ELSE b
Min(a, b) == IF a <= b THEN a ELSE b

\* ------------------------------------------------------ the rules engine
RECURSIVE AncestorsOrSelf(_, _)
AncestorsOrSelf(p, n) == IF n = 0 THEN {} ELSE {n} \cup AncestorsOrSelf(p, p[n])

\* All ordered trees of k nodes, as parent sequences in preorder.
RECURSIVE TreesOfSize(_)
TreesOfSize(k) ==
  IF k = 1 THEN {<<0>>}
  ELSE UNION {{Append(p, a) : a \in AncestorsOrSelf(p, Len(p))} : p \in TreesOfSize(k - 1)}

GameTrees == UNION {TreesOfSize(k) : k \in 1..MaxNodes}

\* The children of node n in enumeration order.
Children(n) == SelectSeq([i \in 1..Len(parent) |-> i], LAMBDA c : parent[c] = n)

\* The position the board is in: the root position after the moves pushed.
Position(b) == IF b = <<>> THEN Root ELSE b[Len(b)]

\* list(self.board.legal_moves)
legal_moves(b) == Children(Position(b))

\* self.board.is_game_over()
is_game_over(b) == over[Position(b)]

\* self.evaluate_board() as the search sees it
LeafEval(b) == ev[Position(b)]

\* self.board.push(move)
push(b, move) == Append(b, move)

\* Variant: the undo of a move is left out.
pop_skipped(b) == b
\* self.board.pop()
pop(b) == SubSeq(b, 1, Len(b) - 1)

\* -------------------------------------------------------------- minimax
\* Variant: the base case tests the depth only.
BaseCaseDepthOnly(depth, b) == depth = 0
\* if depth == 0 or self.board.is_game_over()
BaseCase(depth, b) == depth = 0 \/ is_game_over(b)

\* Variant: best_eval starts at 0 instead of -inf / +inf.
best_eval_zero(maximizing_player) == 0
\* best_eval = float('-inf') / float('inf')
best_eval_seed(maximizing_player) == IF maximizing_player THEN -Inf ELSE Inf

\* Variant: a tie replaces the best move (>= and <=).
BetterOrEqual(maximizing_player, evaluation, best_eval) ==
  IF maximizing_player THEN evaluation >= best_eval ELSE evaluation <= best_eval
\* if evaluation > best_eval / if evaluation < best_eval
Better(maximizing_player, evaluation, best_eval) ==
  IF maximizing_player THEN evaluation > best_eval ELSE evaluation < best_eval

\* alpha = max(alpha, best_eval), in the maximizing branch only
NewAlpha(maximizing_player, alpha, best_eval) == IF maximizing_player THEN Max(alpha, best_eval) ELSE alpha

\* Variant: beta is lowered in the maximizing branch too.
NewBetaBothBranches(maximizing_player, beta, best_eval) == Min(beta, best_eval)
\* beta = min(beta, best_eval), in the minimizing branch only
NewBeta(maximizing_player, beta, best_eval) == IF maximizing_player THEN beta ELSE Min(beta, best_eval)

\* if beta <= alpha: break
Cutoff(alpha, beta) == beta <= alpha

\* A call of minimax(depth, alpha, beta, maximizing_player) on board b.
NewFrame(depth, alpha, beta, maximizing_player, b) ==
  [depth |-> depth, alpha |-> alpha, beta |-> beta, maximizing_player |-> maximizing_player,
   at |-> "enter", moves |-> <<>>, i |-> 1,
   best_eval |-> 0, best_move |-> NoMove,
   \* what the call saw and did, for the properties
   entry |-> b, enumerated |-> FALSE, pushes |-> 0, pops |-> 0, broke |-> FALSE]

Top == stack[Len(stack)]
Rest == SubSeq(stack, 1, Len(stack) - 1)
WithTop(f) == [stack EXCEPT ![Len(stack)] = f]

\* The value a returning call hands to its caller, with what the call did.
Returned(f, score, move) ==
  [score |-> score, move |-> move, depth |-> f.depth, entry |-> f.entry,
   root |-> Len(stack) = 1,
   enumerated |-> f.enumerated, pushes |-> f.pushes, pops |-> f.pops,
   broke |-> f.broke]

\* next_move / get_best_move: self.minimax(self.depth)
next_move ==
  /\ pc = "idle"
  /\ pc' = "running"
  /\ stack' = <<NewFrame(rootDepth, -Inf, Inf, TRUE, board)>>
  /\ UNCHANGED <<parent, over, ev, rootDepth, board, ret, exc, pruned, evalVars>>

Running == pc = "running" /\ ~exc /\ stack # <<>>

\* return self.evaluate_board(), None
BaseCaseReturn ==
  /\ Running
  /\ Top.at = "enter"
  /\ BaseCase(Top.depth, board)
  /\ ret' = <<Returned(Top, LeafEval(board), NoMove)>>
  /\ stack' = Rest
  /\ pc' = IF Len(stack) = 1 THEN "done" ELSE pc
  /\ UNCHANGED <<parent, over, ev, rootDepth, board, exc, pruned, evalVars>>

\* legal_moves = list(...); best_move = None; best_eval = +-inf
Enumerate ==
  /\ Running
  /\ Top.at = "enter"
  /\ ~BaseCase(Top.depth, board)
  /\ stack' = WithTop([Top EXCEPT !.at = "loop",
                                  !.moves = legal_moves(board),
                                  !.i = 1,
                                  !.best_move = NoMove,
                                  !.best_eval = best_eval_seed(Top.maximizing_player),
                                  !.enumerated = TRUE])
  /\ UNCHANGED <<parent, over, ev, rootDepth, board, ret, exc, pruned, pc, evalVars>>

\* self.board.push(move); self.minimax(depth - 1, alpha, beta, not maximizing)
Recurse ==
  /\ Running
  /\ Top.at = "loop"
  /\ Top.i <= Len(Top.moves)
  /\ Len(stack) < RecursionLimit
  /\ board' = push(board, Top.moves[Top.i])
  /\ stack' = Append(WithTop([Top EXCEPT !.at = "called", !.pushes = @ + 1]),
                     NewFrame(Top.depth - 1, Top.alpha, Top.beta, ~Top.maximizing_player, board'))
  /\ UNCHANGED <<parent, over, ev, rootDepth, ret, exc, pruned, pc, evalVars>>

\* self.board.push(move), then the recursive call raises RecursionError
RecursionError ==
  /\ Running
  /\ Top.at = "loop"
  /\ Top.i <= Len(Top.moves)
  /\ Len(stack) >= RecursionLimit
  /\ board' = push(board, Top.moves[Top.i])
  /\ stack' = WithTop([Top EXCEPT !.at = "called", !.pushes = @ + 1])
  /\ exc' = TRUE
  /\ UNCHANGED <<parent, over, ev, rootDepth, ret, pruned, pc, evalVars>>

\* An exception leaves a minimax call: nothing catches it, and the
\* self.board.pop() after the recursive call is not run.
Propagate ==
  /\ pc = "running"
  /\ exc
  /\ stack # <<>>
  /\ stack' = Rest
  /\ pc' = IF Len(stack) = 1 THEN "raised" ELSE pc
  /\ UNCHANGED <<parent, over, ev, rootDepth, board, ret, exc, pruned, evalVars>>

\* self.board.pop(); the best_eval / best_move update; alpha or beta; break
Undo ==
  /\ Running
  /\ Top.at = "called"
  /\ ret # <<>>
  /\ LET f == Top
         evaluation == ret[1].score
         better == Better(f.maximizing_player, evaluation, f.best_eval)
         best_eval == IF better THEN evaluation ELSE f.best_eval
         best_move == IF better THEN f.moves[f.i] ELSE f.best_move
         alpha == NewAlpha(f.maximizing_player, f.alpha, best_eval)
         beta == NewBeta(f.maximizing_player, f.beta, best_eval)
         cut == Cutoff(alpha, beta)
     IN /\ board' = pop(board)
        /\ stack' = WithTop([f EXCEPT !.best_eval = best_eval,
                                      !.best_move = best_move,
                                      !.alpha = alpha,
                                      !.beta = beta,
                                      !.i = @ + 1,
                                      !.pops = @ + 1,
                                      !.broke = cut /\ f.i < Len(f.moves),
                                      !.at = IF cut THEN "exit" ELSE "loop"])
        /\ pruned' = (pruned \/ (cut /\ f.i < Len(f.moves)))
  /\ ret' = <<>>
  /\ UNCHANGED <<parent, over, ev, rootDepth, exc, pc, evalVars>>

\* return best_eval, best_move
Return ==
  /\ Running
  /\ \/ Top.at = "exit"
     \/ Top.at = "loop" /\ Top.i > Len(Top.moves)
  /\ ret' = <<Returned(Top, Top.best_eval, Top.best_move)>>
  /\ stack' = Rest
  /\ pc' = IF Len(stack) = 1 THEN "done" ELSE pc
  /\ UNCHANGED <<parent, over, ev, rootDepth, board, exc, pruned, evalVars>>

\* The evaluator's variables while the search runs.
NoPosition == [pieces |-> <<>>, rights |-> {}]
NoEvaluation == <<>>

\* The number of moves from the root position to node n of tree p.
Level(p, n) == Cardinality(AncestorsOrSelf(p, n)) - 1

\* A root call of depth d can reach node n of tree p with game-over flags o:
\* no position on the way to n is game-over or at the depth limit.
Searched(p, o, d, n) ==
  \A a \in AncestorsOrSelf(p, n) \ {n} : ~o[a] /\ Level(p, a) # d

\* The positions whose evaluation a root call of depth d can ask for.
Evaluable(p, o, d) ==
  {n \in 1..Len(p) : Searched(p, o, d, n) /\ (o[n] \/ Level(p, n) = d)}

\* Bot.__init__ on any position of any game tree: a position with no legal
\* move is game-over (checkmate or stalemate); a game-over position may still
\* have legal moves (insufficient material, repetition, 75 moves).  What no
\* search of the chosen depth can read is fixed (not game-over, score 0), so
\* that two initial states differ only in what a search can see.
Init ==
  /\ parent \in GameTrees
  /\ rootDepth \in -1..MaxDepth
  /\ over \in [1..Len(parent) -> BOOLEAN]
  /\ \A n \in 1..Len(parent) :
       /\ Children(n) = <<>> => over[n]
       /\ Children(n) # <<>> /\ ~Searched(parent, over, rootDepth, n) => ~over[n]
  /\ \E g \in [Evaluable(parent, over, rootDepth) -> Scores] :
       ev = [n \in 1..Len(parent) |->
               IF n \in Evaluable(parent, over, rootDepth) THEN g[n] ELSE 0]
  /\ board = <<>>
  /\ stack = <<>>
  /\ ret = <<>>
  /\ exc = FALSE
  /\ pruned = FALSE
  /\ pc = "idle"
  /\ position = NoPosition
  /\ evaluated = NoEvaluation

Next ==
  \/ next_move
  \/ BaseCaseReturn
  \/ Enumerate
  \/ Recurse
  \/ RecursionError
  \/ Propagate
  \/ Undo
  \/ Return

Spec == Init /\ [][Next]_vars

\* ------------------------------------------------------------ evaluator
\* Scores of the evaluator are counted in halves: 0.5 is 1, a pawn is 2.

\* chess.WHITE / chess.BLACK (python-chess: True / False)
WHITE == TRUE
BLACK == FALSE

\* The squares of chess.SQUARES the modelled positions may occupy; every other
\* square is empty.
ModelSquares == {"e1", "e8", "d4", "e5", "b3"}
\* Most pieces a modelled position holds.
MaxPieces == 3

\* piece.symbol(): upper case for white, lower case for black; "." is None.
WhiteSymbols == {"P", "N", "B", "R", "Q", "K"}
BlackSymbols == {"p", "n", "b", "r", "q", "k"}
Empty == "."

\* piece.color
PieceColor(symbol) == symbol \in WhiteSymbols

\* piece.symbol().lower()
lower(symbol) ==
  CASE symbol \in {"P", "p"} -> "p"
    [] symbol \in {"N", "n"} -> "n"
    [] symbol \in {"B", "b"} -> "b"
    [] symbol \in {"R", "r"} -> "r"
    [] symbol \in {"Q", "q"} -> "q"
    [] symbol \in {"K", "k"} -> "k"

\* [chess.D4, chess.E4, chess.D5, chess.E5]
CenterSquares == {"d4", "e4", "d5", "e5"}

\* self.board.king(color): the square of that colour's king, or "none"
king(pieces, color) ==
  LET k == IF color = WHITE THEN "K" ELSE "k"
      at == {sq \in DOMAIN pieces : pieces[sq] = k}
  IN IF at = {} THEN "none" ELSE CHOOSE sq \in at : TRUE

\* self.board.has_kingside_castling_rights(color)
has_kingside_castling_rights(pos, color) ==
  (IF color = WHITE THEN "K" ELSE "k") \in pos.rights

\* self.board.has_queenside_castling_rights(color)
has_queenside_castling_rights(pos, color) ==
  (IF color = WHITE THEN "Q" ELSE "q") \in pos.rights

\* Bot.get_piece_value with self.color = color
get_piece_value(color, symbol, square) ==
  LET value == CASE lower(symbol) = "p" -> 2
                 [] lower(symbol) = "r" -> 10
                 [] lower(symbol) = "n" -> 6
                 [] lower(symbol) = "b" -> 6
                 [] lower(symbol) = "q" -> 18
                 [] lower(symbol) = "k" -> 200
  IN IF PieceColor(symbol) = color
       THEN (IF square \in CenterSquares THEN value + 1 ELSE value)
       ELSE (IF square \in CenterSquares THEN value - 1 ELSE value)

\* One pass of evaluate_board's loop body: what it adds to score for a square.
SquareTerm(color, pieces, square) ==
  IF pieces[square] = Empty THEN 0
  ELSE IF PieceColor(pieces[square]) = color
         THEN get_piece_value(color, pieces[square], square)
         ELSE 0 - get_piece_value(color, pieces[square], square)

\* evaluate_board's loop over chess.SQUARES: score after the loop.
RECURSIVE MaterialLoop(_, _, _)
MaterialLoop(color, pieces, squares) ==
  IF squares = {} THEN 0
  ELSE LET sq == CHOOSE x \in squares : TRUE
       IN SquareTerm(color, pieces, sq) + MaterialLoop(color, pieces, squares \ {sq})

\* Bot.get_king_safety_bonus with self.color = color
get_king_safety_bonus(color, pos, king_square) ==
  (IF has_kingside_castling_rights(pos, color) /\ king_square = "e1" THEN 4 ELSE 0)
  + (IF has_queenside_castling_rights(pos, color) /\ king_square = "e1" THEN 4 ELSE 0)

\* evaluate_board: the king terms are computed only with both kings on the board.
KingTerms(color, pos) ==
  king(pos.pieces, color) # "none" /\ king(pos.pieces, ~color) # "none"

\* Bot(color).evaluate_board() on the position: the score after the square
\* loop, what each square added, and the king safety bonus added after it.
evaluate_board(color) ==
  /\ pc = "eval"
  /\ evaluated[color] = <<>>
  /\ evaluated' = [evaluated EXCEPT ![color] =
       <<[material |-> MaterialLoop(color, position.pieces, ModelSquares),
          term |-> [sq \in ModelSquares |-> SquareTerm(color, position.pieces, sq)],
          kingTerms |-> KingTerms(color, position),
          kingSafetyBonus |->
            IF KingTerms(color, position)
              THEN get_king_safety_bonus(color, position, king(position.pieces, color))
              ELSE 0]>>]
  /\ UNCHANGED <<searchVars, pc, position>>

PieceCount(pieces, symbols) == Cardinality({sq \in DOMAIN pieces : pieces[sq] \in symbols})

\* The rules engine reports castling rights for a side only while that side's
\* king stands on its home square.
RightsAllowed(pieces) ==
  (IF king(pieces, WHITE) = "e1" THEN {"K", "Q"} ELSE {})
  \cup (IF king(pieces, BLACK) = "e8" THEN {"k", "q"} ELSE {})

\* Any placement of at most MaxPieces pieces (at most one king a side; a king
\* may be missing) with any castling rights the engine can report for it.
InitEval ==
  /\ parent = <<0>>
  /\ over = <<TRUE>>
  /\ ev = <<0>>
  /\ rootDepth = 0
  /\ board = <<>>
  /\ stack = <<>>
  /\ ret = <<>>
  /\ exc = FALSE
  /\ pruned = FALSE
  /\ pc = "eval"
  /\ \E pieces \in [ModelSquares -> WhiteSymbols \cup BlackSymbols \cup {Empty}] :
       /\ PieceCount(pieces, WhiteSymbols \cup BlackSymbols) <= MaxPieces
       /\ PieceCount(pieces, {"K"}) <= 1
       /\ PieceCount(pieces, {"k"}) <= 1
       /\ \E rights \in SUBSET RightsAllowed(pieces) :
            position = [pieces |-> pieces, rights |-> rights]
  /\ evaluated = [c \in BOOLEAN |-> <<>>]

NextEval == \E color \in {WHITE, BLACK} : evaluate_board(color)

SpecEval == InitEval /\ [][NextEval]_vars

\* ---------------------------------------------------------------- claims
\* Minimax of the same tree without pruning: the same base case, the same
\* leaf evaluation, max and min levels alternating.
RECURSIVE PlainMinimax(_, _, _)
PlainMinimax(n, depth, maximizing_player) ==
  IF depth = 0 \/ over[n] THEN ev[n]
  ELSE LET cs == Children(n)
           vals == {PlainMinimax(cs[i], depth - 1, ~maximizing_player) : i \in 1..Len(cs)}
       IN IF vals = {} THEN (IF maximizing_player THEN -Inf ELSE Inf)
          ELSE IF maximizing_player THEN CHOOSE v \in vals : \A w \in vals : v >= w
          ELSE CHOOSE v \in vals : \A w \in vals : v <= w

\* The value of the subtree under each root move, for a root call of depth d.
RootMoveValue(move, d) == PlainMinimax(move, d - 1, FALSE)

\* The first root move, in enumeration order, of maximal unpruned value.
PlainBestMove(d) ==
  LET cs == Children(Root)
      best == PlainMinimax(Root, d, TRUE)
      i == CHOOSE k \in 1..Len(cs) :
             /\ RootMoveValue(cs[k], d) = best
             /\ \A j \in 1..(k - 1) : RootMoveValue(cs[j], d) < best
  IN cs[i]

RootMoves == {Children(Root)[i] : i \in 1..Len(Children(Root))}

\* C1: a root call with depth >= 0 (alpha = -inf, beta = +inf, maximizing)
\* returns the score of plain minimax of the same tree to the same depth.
C1_AlphaBetaScore ==
  (pc = "done" /\ rootDepth >= 0) => ret[1].score = PlainMinimax(Root, rootDepth, TRUE)

\* C1 witness: a root call of depth >= 2 has returned after some loop was left
\* by the beta <= alpha break with moves unexplored.
C1_Witness ==
  pc = "done" /\ rootDepth >= 2 /\ pruned

\* C2: when a minimax call returns (depth >= 0 at the root; any level; also
\* after a break), the board is what it was when the call started, and the
\* call made as many pops as pushes.
C2_BoardRestored ==
  (rootDepth >= 0 /\ ret # <<>>) =>
     /\ board = ret[1].entry
     /\ ret[1].pushes = ret[1].pops

\* C2 witness: a recursive (non-root) call returns after leaving its loop by
\* the break, having pushed moves.
C2_Witness ==
  /\ rootDepth >= 0
  /\ ret # <<>>
  /\ ~ret[1].root
  /\ ret[1].broke
  /\ ret[1].pushes > 0

\* C3: a call with depth > 0 on a game-over position returns
\* (evaluate_board(), None) without enumerating moves, pushing or popping.
C3_TerminalShortCircuit ==
  (ret # <<>> /\ ret[1].depth > 0 /\ is_game_over(ret[1].entry)) =>
     /\ ret[1].score = LeafEval(ret[1].entry)
     /\ ret[1].move = NoMove
     /\ ~ret[1].enumerated
     /\ ret[1].pushes = 0
     /\ ret[1].pops = 0

\* C3 witness: a call with depth > 0 has returned from a game-over position
\* that has no legal move (checkmate or stalemate).
C3_Witness ==
  /\ ret # <<>>
  /\ ret[1].depth > 0
  /\ is_game_over(ret[1].entry)
  /\ legal_moves(ret[1].entry) = <<>>

\* C4 as stated: a root call with depth >= 1 returns None only when the root
\* has no legal move, and a legal move of the root whenever it has one.
C4_Original ==
  (pc = "done" /\ rootDepth >= 1) =>
     /\ ret[1].move = NoMove => Children(Root) = <<>>
     /\ Children(Root) # <<>> => ret[1].move \in RootMoves

\* C4 amended: a root call with depth >= 1 returns None exactly when the root
\* position is game-over, and a legal move of the root whenever it is not.
C4_MoveUnlessGameOver ==
  (pc = "done" /\ rootDepth >= 1) =>
     /\ ret[1].move = NoMove <=> over[Root]
     /\ ~over[Root] => ret[1].move \in RootMoves

\* C4 witness: a root call with depth >= 1 on a position that is not game-over
\* has returned a legal move that is not the first one enumerated.
C4_Witness ==
  /\ pc = "done"
  /\ rootDepth >= 1
  /\ ~over[Root]
  /\ ret[1].move \in RootMoves
  /\ ret[1].move # Children(Root)[1]

\* C5: a call with depth < 0 is rejected at once: no move is enumerated or
\* pushed, no recursive call is made, and no (score, move) is returned.
C5_NegativeDepthRejected ==
  rootDepth < 0 =>
     /\ pc # "done"
     /\ board = <<>>
     /\ Len(stack) <= 1
     /\ \A k \in 1..Len(stack) : ~stack[k].enumerated

\* C6: if the recursive call made for a move raises after the move was pushed,
\* the move is popped before the exception leaves minimax: once the failure
\* has reached the caller, the board is what it was before the call.
C6_PopOnFailure ==
  pc = "raised" => board = <<>>

\* C10: a root call with depth >= 1 on a position that is not game-over
\* returns the first move in enumeration order whose subtree has the maximal
\* unpruned minimax value, and that value as the score.
C10_FirstBestMove ==
  (pc = "done" /\ rootDepth >= 1 /\ ~over[Root]) =>
     /\ ret[1].move = PlainBestMove(rootDepth)
     /\ ret[1].score = RootMoveValue(ret[1].move, rootDepth)

\* C10 witness: such a call has returned, with pruning, while a later root
\* move has the same maximal value as the move returned.
C10_Witness ==
  /\ pc = "done"
  /\ rootDepth >= 2
  /\ ~over[Root]
  /\ pruned
  /\ \E m \in RootMoves :
       /\ m > ret[1].move
       /\ RootMoveValue(m, rootDepth) = RootMoveValue(ret[1].move, rootDepth)

\* The material value of a piece, in halves (pawn 1, knight 3, bishop 3,
\* rook 5, queen 9, king 100).
TableValue(symbol) ==
  CASE symbol \in {"P", "p"} -> 2
    [] symbol \in {"N", "n", "B", "b"} -> 6
    [] symbol \in {"R", "r"} -> 10
    [] symbol \in {"Q", "q"} -> 18
    [] symbol \in {"K", "k"} -> 200

\* C7: for every placement, the score after the square loop with perspective
\* white is the negation of the score after the loop with perspective black.
C7_MaterialSymmetry ==
  (evaluated[WHITE] # <<>> /\ evaluated[BLACK] # <<>>) =>
     evaluated[WHITE][1].material = 0 - evaluated[BLACK][1].material

\* C8: a piece on a central square adds its value + 0.5 to the score when it
\* is the perspective colour's, and -(value + 0.5) when it is the opponent's.
C8_CenterControl ==
  \A color \in {WHITE, BLACK} :
    evaluated[color] # <<>> =>
      \A sq \in ModelSquares \cap CenterSquares :
        position.pieces[sq] # Empty =>
          evaluated[color][1].term[sq] =
            IF PieceColor(position.pieces[sq]) = color
              THEN TableValue(position.pieces[sq]) + 1
              ELSE 0 - (TableValue(position.pieces[sq]) + 1)

\* The home square of a side's king.
HomeSquare(color) == IF color = WHITE THEN "e1" ELSE "e8"

\* C9: for either colour, with the perspective side's king on its own home
\* square, the king safety bonus is +2 for kingside rights plus +2 for
\* queenside rights (in halves: 4 and 4).
C9_KingSafetyBonus ==
  \A color \in {WHITE, BLACK} :
    (/\ evaluated[color] # <<>>
     /\ evaluated[color][1].kingTerms
     /\ king(position.pieces, color) = HomeSquare(color)) =>
       evaluated[color][1].kingSafetyBonus =
         (IF has_kingside_castling_rights(position, color) THEN 4 ELSE 0)
         + (IF has_queenside_castling_rights(position, color) THEN 4 ELSE 0)

====
